---- MODULE Spec2Model ----
(***************************************************************************)
(* A model of neuralpy.models.Sequential (src/neuralpy/models/sequential.py)*)
(* and of the layer-descriptor constructor exercised by                    *)
(* src/tests/neuralpy/activation_functions/test_tanh.py.                   *)
(*                                                                         *)
(* The container is single threaded: one public method runs at a time.     *)
(* fit() is modelled loop iteration by loop iteration (pc tells where the  *)
(* call is); every other method is one atomic action.                      *)
(***************************************************************************)
EXTENDS Integers, Sequences, FiniteSets, TLC

\* ------------------------------------------------------------------ bounds
MaxLayers == 2      \* layers a container may hold
MaxObjects == 2     \* torch models that may be created in one behaviour
MaxSamples == 3     \* rows of an input array
MaxBatch == 3       \* largest batch_size argument
MaxEpochs == 2      \* largest epochs argument

\* --------------------------------------------------------------- constants
\* Python's None for the object-valued attributes __model and __optimizer.
NoObject == 0

\* self.__loss_function before compile()
NoLossFunction == "None"

\* self.__metrics: None, or a list of metric names
MetricsNone == [is_none |-> TRUE, names |-> <<>>]

MetricsList(names) == [is_none |-> FALSE, names |-> names]

\* the arguments the model passes as compile(..., metrics=...)
MetricsArgs == {MetricsNone, MetricsList(<<>>), MetricsList(<<"accuracy">>)}

\* objects handed to add(): what they expose
LayerObjects == [has_get_input_dim : BOOLEAN, has_get_layer : BOOLEAN]

\* the optimizer and loss-function references handed to compile()
SupportedOptimizers == {"SGD"}

OptimizerArgs == SupportedOptimizers \cup {"not_an_optimizer"}

SupportedLossFunctions == {"MSELoss"}

LossFunctionArgs == SupportedLossFunctions \cup {"not_a_loss_function"}

\* the name arguments of the layer constructor (test_tanh.py, and absent)
NameArgs ==
    { [type |-> "NoneType", repr |-> "None"],
      [type |-> "bool",     repr |-> "False"],
      [type |-> "int",      repr |-> "12"],
      [type |-> "float",    repr |-> "3.6"],
      [type |-> "int",      repr |-> "-2"],
      [type |-> "str",      repr |-> "test1"],
      [type |-> "str",      repr |-> "test2"] }

\* ------------------------------------------------------------------- state
VARIABLES
    layers,         \* self.__layers
    model,          \* self.__model: NoObject or the identity of a torch model
    built,          \* self.__build
    optimizer,      \* self.__optimizer: NoObject, or the identity of the model
                    \* whose parameters() the optimizer was constructed over
    loss_function,  \* self.__loss_function
    metrics,        \* self.__metrics
    nextObj,        \* identity of the next torch model to be created
    pc,             \* "idle", the position of the running fit() call, or
                    \* "returned": the call is over, its outcome is with the caller
    lastOp,         \* the method called last
    result,         \* "ok", "running", or the exception the last call raised
    args,           \* the arguments of the last fit/predict/evaluate call
    epoch,          \* fit(): loop variable of the epoch loop
    i,              \* fit(): loop variable of the batch loops
    batch_X,        \* fit(): the batch fed to the model last
    batch_y,        \* fit(): its labels
    history,        \* fit(): the history object
    fwd,            \* forward passes made by the last call
    steps,          \* optimizer steps made by the last call
    ret             \* the value the last call returned

vars == << layers, model, built, optimizer, loss_function, metrics, nextObj, pc,
           lastOp, result, args, epoch, i, batch_X, batch_y, history, fwd, steps,
           ret >>

container == << layers, model, built, optimizer, loss_function, metrics, nextObj >>

\* ----------------------------------------------------------------- helpers
Min(a, b) == IF a < b THEN a ELSE b

\* Python's s[a:b] for 0 <= a <= b: clamps at the end of s
Slice(s, a, b) == SubSeq(s, a + 1, Min(b, Len(s)))

\* An input array of n rows; row k of the split is identified by (split, k).
Rows(split, n) == [k \in 1..n |-> [split |-> split, row |-> k]]

\* faulty variant of in_range: the loop leaves out a last partial batch
in_range_full_batches_only(idx, stop, step) == idx + step <= stop

\* range(0, stop, step): does the loop run an iteration for index idx
in_range(idx, stop, step) == idx < stop

\* self.__model(batch): one output row per input row, decided by the model and
\* the row (the model is in eval mode or the rows are independent)
forward(m, batch) == [k \in 1..Len(batch) |-> [model |-> m, input |-> batch[k]]]

NoArgs == [X |-> 0, y |-> 0, X_test |-> 0, y_test |-> 0, epochs |-> 0, batch_size |-> 0,
           name |-> [type |-> "NoneType", repr |-> "None"]]

NoHistory == [created |-> FALSE, batchwise |-> [k \in {} |-> <<>>], epochwise |-> [k \in {} |-> <<>>]]

NoReturn == [rows |-> <<>>, keys |-> {}, layer |-> [created |-> FALSE, name |-> "None"]]

\* the values local to one call, as they are when a call starts
CallStart(op) ==
    /\ lastOp' = op
    /\ epoch' = 0
    /\ i' = 0
    /\ batch_X' = <<>>
    /\ batch_y' = <<>>
    /\ steps' = 0

Init ==
    /\ layers = <<>>
    /\ model = NoObject
    /\ built = FALSE
    /\ optimizer = NoObject
    /\ loss_function = NoLossFunction
    /\ metrics = MetricsNone
    /\ nextObj = 1
    /\ pc = "idle"
    /\ lastOp = "none"
    /\ result = "ok"
    /\ args = NoArgs
    /\ epoch = 0
    /\ i = 0
    /\ batch_X = <<>>
    /\ batch_y = <<>>
    /\ history = NoHistory
    /\ fwd = 0
    /\ steps = 0
    /\ ret = NoReturn

\* ------------------------------------------------------------------- add()
is_valid_layer(layer) == layer.has_get_input_dim /\ layer.has_get_layer

\* faulty variant of add: the built flag is not looked at
add_without_build_check(layer) ==
    /\ pc = "idle"
    /\ CallStart("add")
    /\ history' = NoHistory
    /\ args' = NoArgs
    /\ fwd' = 0
    /\ ret' = NoReturn
    /\ pc' = "returned"
    /\ IF ~is_valid_layer(layer)
         THEN /\ result' = "ValueError"
              /\ UNCHANGED container
         ELSE /\ Len(layers) < MaxLayers
              /\ layers' = Append(layers, layer)
              /\ result' = "ok"
              /\ UNCHANGED << model, built, optimizer, loss_function, metrics, nextObj >>

add(layer) ==
    /\ pc = "idle"
    /\ CallStart("add")
    /\ history' = NoHistory
    /\ args' = NoArgs
    /\ fwd' = 0
    /\ ret' = NoReturn
    /\ pc' = "returned"
    /\ IF built
         THEN /\ result' = "Exception"
              /\ UNCHANGED container
         ELSE IF ~is_valid_layer(layer)
         THEN /\ result' = "ValueError"
              /\ UNCHANGED container
         ELSE /\ Len(layers) < MaxLayers
              /\ layers' = Append(layers, layer)
              /\ result' = "ok"
              /\ UNCHANGED << model, built, optimizer, loss_function, metrics, nextObj >>

\* ----------------------------------------------------------------- build()
\* The body of build(): a new torch.nn.Sequential is made from the stored
\* layers, whatever the state of the container, and the flag is raised.
build_body ==
    /\ nextObj <= MaxObjects
    /\ model' = nextObj
    /\ nextObj' = nextObj + 1
    /\ built' = TRUE

build ==
    /\ pc = "idle"
    /\ CallStart("build")
    /\ history' = NoHistory
    /\ args' = NoArgs
    /\ fwd' = 0
    /\ ret' = NoReturn
    /\ pc' = "returned"
    /\ build_body
    /\ result' = "ok"
    /\ UNCHANGED << layers, optimizer, loss_function, metrics >>

\* --------------------------------------------------------------- compile()
is_valid_optimizer(o) == o \in SupportedOptimizers

is_valid_loss_function(l) == l \in SupportedLossFunctions

\* build_optimizer_from_ref_and_details(optimizer, self.__model.parameters()):
\* the optimizer holds the parameters of the model m it was given
build_optimizer_from_ref_and_details(o, m) == m

compile(o, l, m) ==
    /\ pc = "idle"
    /\ CallStart("compile")
    /\ history' = NoHistory
    /\ args' = NoArgs
    /\ fwd' = 0
    /\ ret' = NoReturn
    /\ pc' = "returned"
    /\ IF ~built THEN build_body ELSE UNCHANGED << model, built, nextObj >>
    /\ UNCHANGED layers
    /\ IF ~is_valid_optimizer(o) \/ ~is_valid_loss_function(l)
         THEN /\ result' = "ValueError"
              /\ UNCHANGED << optimizer, loss_function, metrics >>
         ELSE /\ metrics' = m
              /\ optimizer' = build_optimizer_from_ref_and_details(o, model')
              /\ loss_function' = l
              /\ result' = "ok"

\* ------------------------------------------------------------- set_model()
\* m is None (NoObject), a model made earlier, or a model made by the caller
set_model(m) ==
    /\ pc = "idle"
    /\ CallStart("set_model")
    /\ history' = NoHistory
    /\ args' = NoArgs
    /\ fwd' = 0
    /\ ret' = NoReturn
    /\ pc' = "returned"
    /\ IF m = NoObject
         THEN /\ result' = "ValueError"
              /\ UNCHANGED container
         ELSE /\ model' = m
              /\ built' = TRUE
              /\ nextObj' = IF m = nextObj THEN nextObj + 1 ELSE nextObj
              /\ result' = "ok"
              /\ UNCHANGED << layers, optimizer, loss_function, metrics >>

\* --------------------------------------------------- layer descriptor: Tanh
\* faulty variant of is_valid_name: a falsy name is taken for an absent one
is_valid_name_or_falsy(name) == name.type \in {"str", "NoneType"} \/ name.repr = "False"

\* name must be a string or absent
is_valid_name(name) == name.type \in {"str", "NoneType"}

Tanh(name) ==
    /\ pc = "idle"
    /\ CallStart("Tanh")
    /\ history' = NoHistory
    /\ args' = [NoArgs EXCEPT !.name = name]
    /\ fwd' = 0
    /\ pc' = "returned"
    /\ UNCHANGED container
    /\ IF ~is_valid_name(name)
         THEN /\ result' = "ValueError"
              /\ ret' = NoReturn
         ELSE /\ result' = "ok"
              /\ ret' = [NoReturn EXCEPT !.layer = [created |-> TRUE, name |-> name.repr]]

\* --------------------------------------------------------------- predict()
\* faulty variant of predict_batches: each batch's outputs are put in front of
\* the earlier ones
RECURSIVE predict_batches_prepending(_, _, _, _, _, _)
predict_batches_prepending(m, X, batch_size, idx, predictions, n_fwd) ==
    IF in_range(idx, Len(X), batch_size)
      THEN predict_batches_prepending(m, X, batch_size, idx + batch_size,
                           forward(m, Slice(X, idx, idx + batch_size)) \o predictions,
                           n_fwd + 1)
      ELSE [exc |-> "ok", predictions |-> predictions, fwd |-> n_fwd]

\* the batch loop of __predict (for i in range(0, len(X), batch_size)):
\* the predictions and the number of forward passes made
RECURSIVE predict_batches(_, _, _, _, _, _)
predict_batches(m, X, batch_size, idx, predictions, n_fwd) ==
    IF in_range(idx, Len(X), batch_size)
      THEN predict_batches(m, X, batch_size, idx + batch_size,
                           predictions \o forward(m, Slice(X, idx, idx + batch_size)),
                           n_fwd + 1)
      ELSE [exc |-> "ok", predictions |-> predictions, fwd |-> n_fwd]

\* __predict(X, batch_size) on model m; batch_size 0 is a falsy batch_size
\* (None, the default)
private_predict(m, X, batch_size) ==
    IF m = NoObject
      THEN [exc |-> "AttributeError", predictions |-> <<>>, fwd |-> 0]
    ELSE IF batch_size # 0
      THEN IF Len(X) < batch_size
             THEN [exc |-> "ValueError", predictions |-> <<>>, fwd |-> 0]
             ELSE predict_batches(m, X, batch_size, 0, <<>>, 0)
      ELSE [exc |-> "ok", predictions |-> forward(m, X), fwd |-> 1]

predict(n, batch_size) ==
    /\ pc = "idle"
    /\ CallStart("predict")
    /\ history' = NoHistory
    /\ args' = [NoArgs EXCEPT !.X = n, !.batch_size = batch_size]
    /\ pc' = "returned"
    /\ UNCHANGED container
    /\ LET p == private_predict(model, Rows("X", n), batch_size)
       IN  /\ result' = p.exc
           /\ fwd' = p.fwd
           /\ ret' = [NoReturn EXCEPT !.rows = p.predictions]

\* -------------------------------------------------------------- evaluate()
InList(name, list) == \E k \in 1..Len(list) : list[k] = name

evaluate(n, n_y, batch_size) ==
    /\ pc = "idle"
    /\ CallStart("evaluate")
    /\ history' = NoHistory
    /\ args' = [NoArgs EXCEPT !.X = n, !.y = n_y, !.batch_size = batch_size]
    /\ pc' = "returned"
    /\ UNCHANGED container
    /\ IF (batch_size # 0 /\ n < batch_size) \/ n # n_y
         THEN /\ result' = "ValueError"
              /\ fwd' = 0
              /\ ret' = NoReturn
         ELSE LET p == private_predict(model, Rows("X", n), batch_size)
              IN  /\ fwd' = p.fwd
                  /\ IF p.exc # "ok"
                       THEN result' = p.exc /\ ret' = NoReturn
                     ELSE IF loss_function = NoLossFunction
                       \* self.__loss_function(...) with None
                       THEN result' = "TypeError" /\ ret' = NoReturn
                     ELSE IF metrics.is_none
                       \* "accuracy" in None
                       THEN result' = "TypeError" /\ ret' = NoReturn
                     ELSE IF InList("accuracy", metrics.names)
                       THEN result' = "ok" /\ ret' = [NoReturn EXCEPT !.keys = {"loss", "accuracy"}]
                       ELSE result' = "ok" /\ ret' = [NoReturn EXCEPT !.keys = {"loss"}]

\* ------------------------------------------------------------------- fit()
\* faulty variant of fit_validation: the batch size is not compared with the
\* test split
fit_validation_without_test_size(n, n_y, n_test, n_y_test, batch_size) ==
    IF n < batch_size THEN "ValueError"
    ELSE IF n # n_y THEN "ValueError"
    ELSE IF n_test # n_y_test THEN "ValueError"
    ELSE "ok"

\* the four checks fit() makes before anything else
fit_validation(n, n_y, n_test, n_y_test, batch_size) ==
    IF n < batch_size THEN "ValueError"
    ELSE IF n_test < batch_size THEN "ValueError"
    ELSE IF n # n_y THEN "ValueError"
    ELSE IF n_test # n_y_test THEN "ValueError"
    ELSE "ok"

\* metrics = ["loss"] + self.__metrics, or ["loss"]
fit_metrics == IF metrics.is_none THEN <<"loss">> ELSE <<"loss">> \o metrics.names

\* the history object: for every metric a training and a validation list,
\* batchwise and epochwise, all empty
build_history_object_for_training(ms) ==
    LET keys == UNION {{"training_" \o ms[k], "validation_" \o ms[k]} : k \in 1..Len(ms)}
    IN  [created |-> TRUE, batchwise |-> [k \in keys |-> <<>>], epochwise |-> [k \in keys |-> <<>>]]

batchwise_append(h, key, v) == [h EXCEPT !.batchwise[key] = Append(@, v)]

epochwise_append(h, key, v) == [h EXCEPT !.epochwise[key] = Append(@, v)]

X_train == Rows("X_train", args.X)

y_train == Rows("y_train", args.y)

X_test == Rows("X_test", args.X_test)

y_test == Rows("y_test", args.y_test)

\* lines 142-187: the call, its checks and the history object
fit(n, n_y, n_test, n_y_test, epochs, batch_size) ==
    /\ pc = "idle"
    /\ CallStart("fit")
    /\ args' = [NoArgs EXCEPT !.X = n, !.y = n_y, !.X_test = n_test, !.y_test = n_y_test,
                               !.epochs = epochs, !.batch_size = batch_size]
    /\ fwd' = 0
    /\ ret' = NoReturn
    /\ UNCHANGED container
    /\ IF fit_validation(n, n_y, n_test, n_y_test, batch_size) # "ok"
         THEN /\ result' = "ValueError"
              /\ pc' = "returned"
              /\ history' = NoHistory
         ELSE /\ result' = "running"
              /\ pc' = "epoch"
              /\ history' = build_history_object_for_training(fit_metrics)

\* line 190, for epoch in range(epochs): the next epoch starts (lines 191-199)
fit_epoch ==
    /\ pc = "epoch"
    /\ in_range(epoch, args.epochs, 1)
    /\ IF model = NoObject
         \* self.__model.train() on None
         THEN result' = "AttributeError" /\ pc' = "returned"
         ELSE result' = result /\ pc' = "train"
    /\ i' = 0
    /\ UNCHANGED << container, lastOp, args, epoch, batch_X, batch_y, history, fwd, steps, ret >>

\* line 190 and 313: the epoch loop is over, the history is returned
fit_return ==
    /\ pc = "epoch"
    /\ ~in_range(epoch, args.epochs, 1)
    /\ result' = "ok"
    /\ pc' = "returned"
    /\ UNCHANGED << container, lastOp, args, epoch, i, batch_X, batch_y, history, fwd, steps, ret >>

\* lines 202-246: one iteration of the training loop
fit_train_batch ==
    /\ pc = "train"
    /\ in_range(i, Len(X_train), args.batch_size)
    /\ batch_X' = Slice(X_train, i, i + args.batch_size)
    /\ batch_y' = Slice(y_train, i, i + args.batch_size)
    /\ fwd' = fwd + 1
    /\ IF loss_function = NoLossFunction
         \* self.__loss_function(outputs, batch_y) with None
         THEN /\ result' = "TypeError"
              /\ pc' = "returned"
              /\ UNCHANGED << steps, history, i >>
         ELSE /\ steps' = steps + 1
              /\ history' =
                   LET h == batchwise_append(history, "training_loss", "train_loss")
                   IN  IF InList("accuracy", fit_metrics)
                         THEN batchwise_append(h, "training_accuracy", "corrects")
                         ELSE h
              /\ i' = i + args.batch_size
              /\ UNCHANGED << result, pc >>
    /\ UNCHANGED << container, lastOp, args, epoch, ret >>

\* lines 202 and 249: the training loop is over, the model goes to eval mode
fit_train_done ==
    /\ pc = "train"
    /\ ~in_range(i, Len(X_train), args.batch_size)
    /\ pc' = "validate"
    /\ i' = 0
    /\ UNCHANGED << container, lastOp, result, args, epoch, batch_X, batch_y, history, fwd, steps, ret >>

\* lines 254-286: one iteration of the validation loop; the batch is sliced out
\* of X_train and y_train (lines 256-260), and is empty once i is past their end
fit_validation_batch ==
    /\ pc = "validate"
    /\ in_range(i, Len(X_test), args.batch_size)
    /\ batch_X' = Slice(X_train, i, i + args.batch_size)
    /\ batch_y' = Slice(y_train, i, i + args.batch_size)
    /\ fwd' = fwd + 1
    /\ history' =
         LET h == batchwise_append(history, "validation_loss", "validation_loss")
         IN  IF InList("accuracy", fit_metrics)
               THEN batchwise_append(h, "validation_accuracy", "corrects")
               ELSE h
    /\ i' = i + args.batch_size
    /\ UNCHANGED << container, pc, lastOp, result, args, epoch, steps, ret >>

\* lines 254 and 288-310: the validation loop is over, the epoch is recorded
fit_epoch_end ==
    /\ pc = "validate"
    /\ ~in_range(i, Len(X_test), args.batch_size)
    /\ history' =
         LET h == epochwise_append(
                    epochwise_append(history, "training_loss", "training_loss_score"),
                    "validation_loss", "validation_loss_score")
         IN  IF InList("accuracy", fit_metrics)
               THEN epochwise_append(
                      epochwise_append(h, "training_accuracy", "correct_training"),
                      "training_accuracy", "correct_val")
               ELSE h
    /\ epoch' = epoch + 1
    /\ pc' = "epoch"
    /\ UNCHANGED << container, lastOp, result, args, i, batch_X, batch_y, fwd, steps, ret >>

\* The caller has the outcome of the call; the call's locals are gone and the
\* container is ready for the next call.
call_returns ==
    /\ pc = "returned"
    /\ pc' = "idle"
    /\ lastOp' = "none"
    /\ result' = "ok"
    /\ args' = NoArgs
    /\ epoch' = 0
    /\ i' = 0
    /\ batch_X' = <<>>
    /\ batch_y' = <<>>
    /\ history' = NoHistory
    /\ fwd' = 0
    /\ steps' = 0
    /\ ret' = NoReturn
    /\ UNCHANGED container

\* One public method is called while no call is running (the guard is
\* repeated here, ahead of the choice of the arguments), or the running fit()
\* call takes its next step.
Next ==
    \/ pc = "idle" /\ \E layer \in LayerObjects : add(layer)
    \/ pc = "idle" /\ build
    \/ pc = "idle" /\ \E o \in OptimizerArgs, l \in LossFunctionArgs, m \in MetricsArgs : compile(o, l, m)
    \/ pc = "idle" /\ \E m \in 0..Min(nextObj, MaxObjects) : set_model(m)
    \/ pc = "idle" /\ \E name \in NameArgs : Tanh(name)
    \/ pc = "idle" /\ \E n \in 1..MaxSamples, b \in 0..MaxBatch : predict(n, b)
    \/ pc = "idle" /\ \E n \in 1..MaxSamples, n_y \in 1..MaxSamples, b \in 0..MaxBatch :
                         evaluate(n, n_y, b)
    \/ pc = "idle" /\ \E n \in 1..MaxSamples, n_y \in 1..MaxSamples, n_test \in 1..MaxSamples,
                         n_y_test \in 1..MaxSamples, epochs \in 0..MaxEpochs, b \in 1..MaxBatch :
                         fit(n, n_y, n_test, n_y_test, epochs, b)
    \/ fit_epoch
    \/ fit_return
    \/ fit_train_batch
    \/ fit_train_done
    \/ fit_validation_batch
    \/ fit_epoch_end
    \/ call_returns

Spec == Init /\ [][Next]_vars

\* ================================================================== claims
Ceil(a, b) == (a + b - 1) \div b

Fields == << layers, model, built, optimizer, loss_function, metrics >>

\* C1: while the built flag is true every add() call fails, whether the layer is
\* valid or not, and the layer list is left as it was; the layer list changes
\* only in steps taken with the built flag false.
C1_AddAfterBuildFails ==
    [][ /\ (pc = "idle" /\ lastOp' = "add" /\ built)
             => (result' = "Exception" /\ layers' = layers)
        /\ (layers' # layers) => (~built /\ layers' = Append(layers, layers'[Len(layers')]))
      ]_vars

\* C1 witness: an add() call has failed on a built container that holds a layer
C1_Witness ==
    lastOp = "add" /\ pc = "returned" /\ built /\ result = "Exception" /\ Len(layers) = 1

FitArgsInvalid ==
    \/ args.batch_size > args.X
    \/ args.batch_size > args.X_test
    \/ args.X # args.y
    \/ args.X_test # args.y_test

\* C2: a fit() call whose batch_size exceeds the sample count of either split,
\* or whose input and output sample counts differ in either split, raises
\* before any batch is processed: no forward pass, no optimizer step, no
\* history entry.
C2_FitFailsFast ==
    (lastOp = "fit" /\ FitArgsInvalid)
        => /\ pc = "returned"
           /\ result = "ValueError"
           /\ fwd = 0
           /\ steps = 0
           /\ history = NoHistory

\* C2 witness: fit() on a compiled container was refused for the test split alone
C2_Witness ==
    /\ lastOp = "fit" /\ result = "ValueError"
    /\ optimizer # NoObject /\ optimizer = model
    /\ args.batch_size > args.X_test /\ args.batch_size <= args.X
    /\ args.X = args.y /\ args.X_test = args.y_test /\ args.epochs > 0

\* C3: a fit() call that succeeds returns a history whose batchwise training-loss
\* list has epochs * ceil(train_size / batch_size) entries; every training batch
\* is the rows [i, i + batch_size) of the training split, cut at its end.
C3_BatchwiseTrainingLossLength ==
    /\ (lastOp = "fit" /\ pc = "returned" /\ result = "ok")
         => Len(history.batchwise["training_loss"])
              = args.epochs * Ceil(args.X, args.batch_size)
    /\ (pc = "train" /\ i > 0)
         => /\ batch_X = SubSeq(X_train, i - args.batch_size + 1, Min(i, args.X))
            /\ Len(history.batchwise["training_loss"])
                 = epoch * Ceil(args.X, args.batch_size) + Ceil(i, args.batch_size)

\* C3 witness: two epochs over three rows in batches of two: four entries
C3_Witness ==
    /\ lastOp = "fit" /\ pc = "returned" /\ result = "ok"
    /\ args.X = 3 /\ args.batch_size = 2 /\ args.epochs = 2
    /\ Len(history.batchwise["training_loss"]) = 4

\* C4: every validation batch is the rows [i, i + batch_size) of the test
\* split's inputs and labels, and holds no training sample.
C4_ValidationUsesTestSplit ==
    (pc = "validate" /\ i > 0)
        => /\ batch_X = Slice(X_test, i - args.batch_size, i)
           /\ batch_y = Slice(y_test, i - args.batch_size, i)
           /\ \A k \in 1..Len(batch_X) : batch_X[k].split # "X_train"

\* C5: predict(X, batch_size) with 1 <= batch_size <= n returns n rows, row k
\* the model's output for input row k, the same rows as predict(X); with
\* batch_size > n it raises before any forward pass.
C5_PredictBatchedEqualsUnbatched ==
    (lastOp = "predict" /\ model # NoObject /\ args.batch_size >= 1)
        => IF args.batch_size <= args.X
             THEN /\ result = "ok"
                  /\ Len(ret.rows) = args.X
                  /\ \A k \in 1..args.X :
                       ret.rows[k] = [model |-> model, input |-> [split |-> "X", row |-> k]]
                  /\ ret.rows = private_predict(model, Rows("X", args.X), 0).predictions
                  /\ fwd = Ceil(args.X, args.batch_size)
             ELSE /\ result = "ValueError"
                  /\ fwd = 0
                  /\ ret.rows = <<>>

\* C5 witness: three rows predicted in batches of two
C5_Witness ==
    /\ lastOp = "predict" /\ result = "ok"
    /\ args.X = 3 /\ args.batch_size = 2 /\ fwd = 2 /\ Len(ret.rows) = 3

\* C6: evaluate() with matching sample counts on a compiled container returns
\* a mapping: loss and accuracy when accuracy was asked for at compile time,
\* the loss alone otherwise, also when no metrics were given.
C6_EvaluateReturnsMapping ==
    ( /\ lastOp = "evaluate"
      /\ optimizer # NoObject /\ loss_function # NoLossFunction
      /\ args.X = args.y
      /\ args.batch_size <= args.X )
        => /\ result = "ok"
           /\ ret.keys = IF InList("accuracy", metrics.names)
                           THEN {"loss", "accuracy"}
                           ELSE {"loss"}

\* C7: a call that fails validation (raises ValueError) leaves the container as
\* it was; compile() refused on a container that is not built leaves it not
\* built and without a model.
C7_FailedValidationChangesNothing ==
    [][ (pc = "idle" /\ result' = "ValueError") => UNCHANGED Fields ]_vars

\* C8: constructing a layer descriptor with a name that is not a string raises
\* ValueError and makes no descriptor; with a string or no name it succeeds.
C8_NonStringNameRejected ==
    lastOp = "Tanh"
        => IF args.name.type = "str" \/ args.name.type = "NoneType"
             THEN result = "ok" /\ ret.layer = [created |-> TRUE, name |-> args.name.repr]
             ELSE result = "ValueError" /\ ~ret.layer.created

\* C8 witness: the name False was refused
C8_Witness ==
    lastOp = "Tanh" /\ args.name.repr = "False" /\ result = "ValueError"

\* C9: after a successful fit() over E epochs every per-epoch list of the
\* history has E entries.
C9_EpochwiseListsHaveOneEntryPerEpoch ==
    (lastOp = "fit" /\ pc = "returned" /\ result = "ok")
        => \A key \in DOMAIN history.epochwise :
             Len(history.epochwise[key]) = args.epochs

\* C10: once compile() has succeeded the optimizer holds the parameters of the
\* container's current model.
C10_OptimizerBoundToCurrentModel ==
    optimizer # NoObject => optimizer = model

====
